---- MODULE Spec2Model ----
(***************************************************************************)
(* Model of the data validator (src/src/database_builder.py) and of the    *)
(* feature derivation (src/src/DataProcess.py).                            *)
(*                                                                         *)
(* A price is a sequence: <<>> is a missing value (NaN), <<v>> is the      *)
(* number v.  A frame is a sequence of rows in frame order; every row      *)
(* carries its index label idx, as a pandas row does.                      *)
(***************************************************************************)
EXTENDS Integers, Sequences, FiniteSets, TLC

VARIABLES pc, raw, now, clean, audit, clean2, audit2,
          table, arg, out

(* pc: the step reached.  raw, now, clean, audit, clean2, audit2: the frame
   handed to the validator, the clock and what two runs of it returned.  table:
   the frame read from the database; arg: the arguments of the call made on
   it; out: what the call returned. *)
vars == <<pc, raw, now, clean, audit, clean2, audit2, table, arg, out>>

(***************************************************************************)
(* Bounds of the inputs.                                                   *)
(***************************************************************************)
MaxLen == 3
MaxPrice == 2
Now == 1

(* The literal 0.5 of the extreme-volatility rule, as the ratio 1/2. *)
ExtremeNum == 1
ExtremeDen == 2

NaN == <<>>
Num(v) == <<v>>
IsNa(p) == p = NaN
Val(p) == p[1]

Abs(x) == IF x < 0 THEN -x ELSE x

RECURSIVE SelectIdx(_, _, _)
(* df[mask]: the rows of df whose index label is in keep, in frame order. *)
SelectIdx(df, keep, i) ==
  IF i > Len(df) THEN <<>>
  ELSE (IF df[i].idx \in keep THEN <<df[i]>> ELSE <<>>) \o SelectIdx(df, keep, i + 1)

Idx(df) == {df[i].idx : i \in 1..Len(df)}

(* df.reset_index(): the rows get the labels of their positions. *)
ResetIndex(df) ==
  [i \in 1..Len(df) |->
     [idx |-> i, date |-> df[i].date, open |-> df[i].open, high |-> df[i].high,
      low |-> df[i].low, close |-> df[i].close]]

(* df[df['Date'] <= datetime.now()] *)
NotFuture(df, t) == SelectIdx(df, {df[i].idx : i \in {j \in 1..Len(df) : df[j].date <= t}}, 1)

(* df[['Open','High','Low','Close']].isna().any(axis=1) *)
AnyNa(r) == IsNa(r.open) \/ IsNa(r.high) \/ IsNa(r.low) \/ IsNa(r.close)

(* A mask that lets a price of exactly 0 through. *)
MaskZeroStrict(r) ==
  Val(r.open) < 0 \/ Val(r.high) < 0 \/ Val(r.low) < 0 \/ Val(r.close) < 0

(* mask_zero *)
MaskZero(r) ==
  Val(r.open) <= 0 \/ Val(r.high) <= 0 \/ Val(r.low) <= 0 \/ Val(r.close) <= 0

(* A mask that forgets to compare High with Open. *)
MaskLogicErrorNoOpen(r) ==
  \/ Val(r.high) < Val(r.low)
  \/ Val(r.high) < Val(r.close)
  \/ Val(r.low) > Val(r.open)
  \/ Val(r.low) > Val(r.close)

(* mask_logic_error *)
MaskLogicError(r) ==
  \/ Val(r.high) < Val(r.low)
  \/ Val(r.high) < Val(r.open)
  \/ Val(r.high) < Val(r.close)
  \/ Val(r.low) > Val(r.open)
  \/ Val(r.low) > Val(r.close)

(* A mask that also takes a change of exactly 0.5. *)
MaskExtremeInclusive(df, i) ==
  /\ i > 1
  /\ ExtremeDen * Abs(Val(df[i].close) - Val(df[i-1].close))
        >= ExtremeNum * Val(df[i-1].close)

(* df['Close'].pct_change().abs() > 0.5 at position i of df: the first row's
   change is NaN, and NaN > 0.5 is false. *)
MaskExtreme(df, i) ==
  /\ i > 1
  /\ ExtremeDen * Abs(Val(df[i].close) - Val(df[i-1].close))
        > ExtremeNum * Val(df[i-1].close)

ReasonNa == "Missing Values (NaN)"
ReasonLogic == "Logic Error (Zero or H/L invalid)"
ReasonExtreme == "Extreme Volatility (>50%)"

WithReason(df, reason) == [i \in 1..Len(df) |-> [row |-> df[i], reason |-> reason]]

None == [isNone |-> TRUE, rows |-> <<>>]
Frame(rows) == [isNone |-> FALSE, rows |-> rows]

(* Line 83: the rows with a missing price, for the log. *)
NaRows(df) == SelectIdx(df, {df[i].idx : i \in {j \in 1..Len(df) : AnyNa(df[j])}}, 1)

(* Line 88: df.dropna(subset=['Open','High','Low','Close']) *)
DropNa(df) == SelectIdx(df, Idx(df) \ Idx(NaRows(df)), 1)

(* Line 101: df[mask_zero | mask_logic_error] *)
BadData(df) ==
  SelectIdx(df, {df[i].idx : i \in {j \in 1..Len(df) :
                                      MaskZero(df[j]) \/ MaskLogicError(df[j])}}, 1)

(* A validator that logs the inconsistent rows and keeps them. *)
FilterLogicKeepsAll(df) == df

(* Line 106: df[~(mask_zero | mask_logic_error)] *)
FilterLogic(df) == SelectIdx(df, Idx(df) \ Idx(BadData(df)), 1)

(* Line 116: df[mask_extreme] *)
ExtremeData(df) ==
  SelectIdx(df, {df[i].idx : i \in {j \in 1..Len(df) : MaskExtreme(df, j)}}, 1)

(* Line 120: df[~mask_extreme] *)
FilterExtreme(df) == SelectIdx(df, Idx(df) \ Idx(ExtremeData(df)), 1)

(* clean_and_validate_data(df, stock_id), run when the clock reads t.  The
   frame always carries the Date index of a download (line 74 is not taken). *)
clean_and_validate_data(df0, t) ==
  IF df0 = <<>> THEN [clean |-> None, audit |-> None]
  ELSE
    LET df1 == NotFuture(ResetIndex(df0), t)
        na_rows == WithReason(NaRows(df1), ReasonNa)
        df2 == DropNa(df1)
    IN IF df2 = <<>> THEN [clean |-> None, audit |-> Frame(na_rows)]
       ELSE
         LET bad_data == WithReason(BadData(df2), ReasonLogic)
             df3 == FilterLogic(df2)
             extreme_data == WithReason(ExtremeData(df3), ReasonExtreme)
             df4 == FilterExtreme(df3)
         IN [clean |-> Frame(df4),
             audit |-> Frame(na_rows \o bad_data \o extreme_data)]

(***************************************************************************)
(* The raw frames the download hands to the validator.                     *)
(***************************************************************************)
Prices == {NaN} \cup {Num(v) : v \in 0..MaxPrice}

(* Every bar of today. *)
RawRows == [date : {Now}, open : Prices, high : Prices, low : Prices, close : Prices]

(* A flat bar of today: open = high = low = close = c > 0. *)
FlatRow(c) ==
  [date |-> Now, open |-> Num(c), high |-> Num(c), low |-> Num(c), close |-> Num(c)]

FlatSeries ==
  UNION {[1..n -> {FlatRow(c) : c \in 1..MaxPrice}] : n \in 0..MaxLen}

InsertAt(s, k, r) == SubSeq(s, 1, k - 1) \o <<r>> \o SubSeq(s, k, Len(s))

(* Series of flat bars with one arbitrary row put in. *)
InsertedSeries ==
  {InsertAt(s, k, r) : <<s, k, r>> \in
     {t \in FlatSeries \X (1..MaxLen) \X RawRows : Len(t[1]) < MaxLen /\ t[2] <= Len(t[1]) + 1}}

(* Bars dated tomorrow (future rows), one flat and one with a missing close,
   a bar whose close is 0 and a bar whose close is missing. *)
DefectRows ==
  {[FlatRow(1) EXCEPT !.date = Now + 1],
   [FlatRow(1) EXCEPT !.date = Now + 1, !.close = NaN],
   [FlatRow(1) EXCEPT !.close = Num(0)],
   [FlatRow(1) EXCEPT !.close = NaN]}

(* Series in which any number of rows are flat bars or one of the defects. *)
DefectSeries ==
  UNION {[1..n -> {FlatRow(c) : c \in 1..MaxPrice} \cup DefectRows] : n \in 0..MaxLen}

RawSeries == InsertedSeries \cup DefectSeries

InitValidator ==
  /\ pc = "raw"
  /\ raw \in RawSeries
  /\ now = Now
  /\ clean = None
  /\ audit = None
  /\ clean2 = None
  /\ audit2 = None
  /\ table = <<>>
  /\ arg = <<>>
  /\ out = <<>>

(* process_stocks: the validator is run on the downloaded frame. *)
Validate ==
  /\ pc = "raw"
  /\ LET res == clean_and_validate_data(raw, now)
     IN /\ clean' = res.clean
        /\ audit' = res.audit
  /\ pc' = "validated"
  /\ UNCHANGED <<raw, now, clean2, audit2, table, arg, out>>

(* The validator is run again, on the clean frame it returned, at the same
   or a later time. *)
Revalidate ==
  /\ pc = "validated"
  /\ ~clean.isNone
  /\ \E t \in {Now, Now + 1} :
       /\ now' = t
       /\ LET res == clean_and_validate_data(clean.rows, t)
          IN /\ clean2' = res.clean
             /\ audit2' = res.audit
  /\ pc' = "revalidated"
  /\ UNCHANGED <<raw, clean, audit, table, arg, out>>

NextValidator == Validate \/ Revalidate

SpecValidator == InitValidator /\ [][NextValidator]_vars

(***************************************************************************)
(* DataProcess.py.  A number is a reduced fraction <<n, d>> with d > 0;     *)
(* <<1, 0>> and <<-1, 0>> are the infinities and NaN is <<>>, as above.     *)
(* The square root of a fraction that is not 0 is kept as a symbol.         *)
(***************************************************************************)
RECURSIVE GCD(_, _)
GCD(a, b) == IF b = 0 THEN a ELSE GCD(b, a % b)

Sign(x) == IF x < 0 THEN -1 ELSE IF x > 0 THEN 1 ELSE 0

(* The float n/d: 0/0 is NaN and x/0 an infinity. *)
R(n, d) ==
  IF d = 0 THEN (IF n = 0 THEN NaN ELSE <<Sign(n), 0>>)
  ELSE LET g == GCD(Abs(n), Abs(d))
       IN <<(Sign(d) * n) \div g, Abs(d) \div g>>

Flt(v) == <<v, 1>>
Zero == Flt(0)

RAdd(x, y) == IF x = NaN \/ y = NaN THEN NaN ELSE R(x[1] * y[2] + y[1] * x[2], x[2] * y[2])
RSub(x, y) == IF x = NaN \/ y = NaN THEN NaN ELSE R(x[1] * y[2] - y[1] * x[2], x[2] * y[2])
RMul(x, y) == IF x = NaN \/ y = NaN THEN NaN ELSE R(x[1] * y[1], x[2] * y[2])
RDiv(x, y) == IF x = NaN \/ y = NaN THEN NaN ELSE R(x[1] * y[2], x[2] * y[1])
(* x > y; a comparison with NaN is false. *)
RGt(x, y) == x # NaN /\ y # NaN /\ x[1] * y[2] > y[1] * x[2]

RECURSIVE RSum(_, _)
(* The sum of xs[i] over the positions i of the set ps. *)
RSum(xs, ps) ==
  IF ps = {} THEN Zero
  ELSE LET i == CHOOSE j \in ps : TRUE IN RAdd(xs[i], RSum(xs, ps \ {i}))

RMax(S) == CHOOSE x \in S : \A y \in S : ~RGt(y, x)
RMin(S) == CHOOSE x \in S : \A y \in S : ~RGt(x, y)

(* numpy's sqrt, exact only at 0. *)
Sqrt(q) == IF q = NaN THEN NaN ELSE IF q = Zero THEN Zero ELSE <<"sqrt", q[1], q[2]>>
(* A difference of two such values. *)
SymSub(a, b) ==
  IF a = NaN \/ b = NaN THEN NaN ELSE IF a = b THEN Zero ELSE <<"minus", a, b, 0>>

(* Line 59: the horizons of the moving averages. *)
Horizons == <<5, 10, 20, 60, 120, 240>>
(* Line 57: the window is the 365 days before the prediction date. *)
WindowDays == 365
(* Line 154: rolling(5, min_periods=1) of the volume. *)
VolumeWindow == 5
(* Line 163: nth[:20] of the stochastic position. *)
StochasticWindow == 20

(* df[mask]: the rows at the positions ps, in frame order. *)
RECURSIVE SelectPos(_, _, _)
SelectPos(f, ps, i) ==
  IF i > Len(f) THEN <<>>
  ELSE (IF i \in ps THEN <<f[i]>> ELSE <<>>) \o SelectPos(f, ps, i + 1)

(* sort_values on the keys (k1, k2), ascending and stable. *)
SortValues(f, k1, k2) ==
  LET Before(j, i) == \/ k1[j] < k1[i]
                      \/ k1[j] = k1[i] /\ k2[j] < k2[i]
                      \/ k1[j] = k1[i] /\ k2[j] = k2[i] /\ j < i
      Rank(i) == Cardinality({j \in 1..Len(f) : Before(j, i)}) + 1
  IN [p \in 1..Len(f) |-> f[CHOOSE i \in 1..Len(f) : Rank(i) = p]]

(* sort_values(by=['Stock_ID', 'Date']) *)
SortByIdDate(f) ==
  SortValues(f, [i \in 1..Len(f) |-> f[i].Stock_ID], [i \in 1..Len(f) |-> f[i].Date])
(* sort_values(['Stock_ID', 'Date'], ascending=False) *)
SortByIdDateDesc(f) ==
  SortValues(f, [i \in 1..Len(f) |-> -f[i].Stock_ID], [i \in 1..Len(f) |-> -f[i].Date])
(* sort_values('Date') *)
SortByDate(f) ==
  SortValues(f, [i \in 1..Len(f) |-> f[i].Date], [i \in 1..Len(f) |-> 0])
(* sort_values('Date', ascending=False) *)
SortByDateDesc(f) ==
  SortValues(f, [i \in 1..Len(f) |-> -f[i].Date], [i \in 1..Len(f) |-> 0])

(* The positions, up to i, of the rows of the group of row i, in frame order. *)
GroupUpTo(f, i) == {j \in 1..i : f[j].Stock_ID = f[i].Stock_ID}
(* The place of row i in its group, from 1. *)
GroupPos(f, i) == Cardinality(GroupUpTo(f, i))
(* The position of the row before row i in its group, 0 if it is the first. *)
GroupPrev(f, i) ==
  IF GroupPos(f, i) = 1 THEN 0
  ELSE CHOOSE j \in GroupUpTo(f, i) : GroupPos(f, j) = GroupPos(f, i) - 1

(* groupby('Stock_ID').head(n) *)
GroupHead(f, n) == SelectPos(f, {i \in 1..Len(f) : GroupPos(f, i) <= n}, 1)
(* groupby('Stock_ID').nth[lo:hi] *)
GroupNth(f, lo, hi) ==
  SelectPos(f, {i \in 1..Len(f) : lo <= GroupPos(f, i) - 1 /\ GroupPos(f, i) - 1 < hi}, 1)
(* groupby('Stock_ID').nth[lo:] *)
GroupNthFrom(f, lo) == SelectPos(f, {i \in 1..Len(f) : lo <= GroupPos(f, i) - 1}, 1)

(* A rolling mean that runs over the rows of the whole frame. *)
GroupRollingMeanUngrouped(f, xs, h, i) ==
  LET w == {j \in 1..i : j > i - h}
  IN RDiv(RSum(xs, w), Flt(Cardinality(w)))

(* groupby("Stock_ID")[col].transform(lambda x: x.rolling(h, min_periods=1).mean())
   at row i, xs being the column. *)
GroupRollingMean(f, xs, h, i) ==
  LET w == {j \in GroupUpTo(f, i) : GroupPos(f, j) > GroupPos(f, i) - h}
  IN RDiv(RSum(xs, w), Flt(Cardinality(w)))

(* A change taken from the row before in the frame, whatever its instrument. *)
GroupPctChangeUngrouped(f, xs, i) ==
  IF i = 1 THEN NaN ELSE RSub(RDiv(xs[i], xs[i - 1]), Flt(1))

(* groupby('Stock_ID')[col].transform("pct_change") at row i. *)
GroupPctChange(f, xs, i) ==
  IF GroupPrev(f, i) = 0 THEN NaN
  ELSE RSub(RDiv(xs[i], xs[GroupPrev(f, i)]), Flt(1))

(* groupby('Stock_ID')[col].transform("diff") at row i. *)
GroupDiff(f, xs, i) ==
  IF GroupPrev(f, i) = 0 THEN NaN ELSE RSub(xs[i], xs[GroupPrev(f, i)])

Column(f, col) == [i \in 1..Len(f) |-> f[i][col]]

(* average_price(interval, data): the column MA_<interval> is MA[interval]. *)
average_price(interval, data) ==
  LET return_data == SortByIdDate(data)
      Close == Column(return_data, "Close")
  IN [i \in 1..Len(return_data) |->
        [return_data[i] EXCEPT !.MA =
           (interval :> GroupRollingMean(return_data, Close, interval, i)) @@ @]]

(* A filter that leaves out the last day. *)
filter_for_date_exclusive(f, start_date, end_date) ==
  SelectPos(f, {i \in 1..Len(f) : f[i].Date >= start_date /\ f[i].Date < end_date}, 1)

(* filter_for_date(df, start_date, end_date) *)
filter_for_date(f, start_date, end_date) ==
  SelectPos(f, {i \in 1..Len(f) : f[i].Date >= start_date /\ f[i].Date <= end_date}, 1)

HorizonSet == {Horizons[k] : k \in 1..Len(Horizons)}
NaNs == [h \in HorizonSet |-> NaN]

(* Lines 59-60: for i in [5, 10, 20, 60, 120, 240]: average_price(i, ...) *)
RECURSIVE MovingAverages(_, _)
MovingAverages(f, k) ==
  IF k > Len(Horizons) THEN f ELSE MovingAverages(average_price(Horizons[k], f), k + 1)

(* Series.unique(): the values in the order of their first appearance. *)
Unique(f) ==
  LET first == {i \in 1..Len(f) : GroupPos(f, i) = 1}
  IN [i \in 1..Cardinality(first) |-> [Stock_ID |-> SelectPos(f, first, 1)[i].Stock_ID]]

RECURSIVE MergeRight(_, _, _, _)
(* left.merge(right, on="Stock_ID", how="right"), from row k of right on;
   naLeft holds NaN for the columns of left. *)
MergeRight(left, right, naLeft, k) ==
  IF k > Len(right) THEN <<>>
  ELSE LET m == SelectPos(left, {i \in 1..Len(left) : left[i].Stock_ID = right[k].Stock_ID}, 1)
       IN (IF m = <<>> THEN <<right[k] @@ naLeft>>
           ELSE [i \in 1..Len(m) |-> right[k] @@ m[i]])
          \o MergeRight(left, right, naLeft, k + 1)

RECURSIVE MergeLeft(_, _, _, _)
(* left.merge(right, on="Stock_ID", how="left"), from row k of left on;
   naRight holds NaN for the columns of right. *)
MergeLeft(left, right, naRight, k) ==
  IF k > Len(left) THEN <<>>
  ELSE LET m == SelectPos(right, {i \in 1..Len(right) : right[i].Stock_ID = left[k].Stock_ID}, 1)
       IN (IF m = <<>> THEN <<left[k] @@ naRight>>
           ELSE [i \in 1..Len(m) |-> left[k] @@ m[i]])
          \o MergeLeft(left, right, naRight, k + 1)

(* Lines 70-75: the change from the second last to the last day of each
   instrument; the rows of the last days of the instruments that have two.
   (Date, Open, High, Low and Type are carried by the code and never read.) *)
FirstDelta(original_df) ==
  LET t == SortByDate(GroupHead(SortByDateDesc(original_df), 2))
      d == [i \in 1..Len(t) |->
              [Stock_ID |-> t[i].Stock_ID, Close |-> t[i].Close, Volume |-> t[i].Volume,
               MA |-> t[i].MA,
               Close_delta_pct |-> GroupPctChange(t, Column(t, "Close"), i),
               MA_delta_pct |-> [h \in HorizonSet |->
                                   GroupPctChange(t, [n \in 1..Len(t) |-> t[n].MA[h]], i)]]]
  IN SelectPos(d, {i \in 1..Len(d) : d[i].Close_delta_pct # NaN}, 1)

(* Lines 81-88: the change from the third last to the second last day. *)
SecondDelta(original_df) ==
  LET t == SortByDate(GroupNth(SortByDateDesc(original_df), 1, 3))
      d == [i \in 1..Len(t) |->
              [Stock_ID |-> t[i].Stock_ID,
               Close_delta_pct_2 |-> GroupPctChange(t, Column(t, "Close"), i),
               MA_delta_pct_2 |-> [h \in HorizonSet |->
                                     GroupPctChange(t, [n \in 1..Len(t) |-> t[n].MA[h]], i)]]]
  IN SelectPos(d, {i \in 1..Len(d) : d[i].Close_delta_pct_2 # NaN}, 1)

(* Lines 98-103: the change of the volume from the second last to the last day. *)
VolumeDelta(original_df) ==
  LET t == SortByDate(GroupHead(SortByDateDesc(original_df), 2))
      d == [i \in 1..Len(t) |->
              [Stock_ID |-> t[i].Stock_ID,
               Volume_delta |-> GroupDiff(t, Column(t, "Volume"), i)]]
  IN SelectPos(d, {i \in 1..Len(d) : d[i].Volume_delta # NaN}, 1)

(* Line 131: groupby("Stock_ID")[["Stock_ID", "Close"]].max() *)
YearMaxClose(original_df) ==
  LET last == SortByIdDate(original_df)
      ends == {i \in 1..Len(last) :
                 \A n \in 1..Len(last) : last[n].Stock_ID = last[i].Stock_ID => n <= i}
  IN [i \in 1..Cardinality(ends) |->
        LET id == SelectPos(last, ends, 1)[i].Stock_ID
        IN [Stock_ID |-> id,
            max_Close |-> RMax({original_df[n].Close :
                                  n \in {k \in 1..Len(original_df) : original_df[k].Stock_ID = id}})]]

(* Lines 151-156: the 20_average_volume column. *)
AverageVolume(original_df) ==
  LET t == GroupNthFrom(SortByIdDateDesc(original_df), 1)
      r == [i \in 1..Len(t) |->
              [Stock_ID |-> t[i].Stock_ID,
               av |-> GroupRollingMean(t, Column(t, "Volume"), VolumeWindow, i)]]
      h == GroupHead(r, 1)
  IN [i \in 1..Len(h) |-> ("Stock_ID" :> h[i].Stock_ID) @@ ("20_average_volume" :> h[i].av)]

(* Lines 162-166: the 20_max_Close and 20_min_Close columns. *)
MaxMinClose(original_df) ==
  LET t == GroupNth(SortByIdDateDesc(original_df), 0, StochasticWindow)
      Of(id) == {t[n].Close : n \in {k \in 1..Len(t) : t[k].Stock_ID = id}}
      h == GroupHead(t, 1)
  IN [i \in 1..Len(h) |->
        ("Stock_ID" :> h[i].Stock_ID) @@ ("20_max_Close" :> RMax(Of(h[i].Stock_ID)))
          @@ ("20_min_Close" :> RMin(Of(h[i].Stock_ID)))]

(* DataFrame.std(axis=1) and .mean(axis=1) of three columns: NaN is skipped,
   and the standard deviation of fewer than two values is NaN. *)
Std3(x, y, z) ==
  LET xs == <<x, y, z>>
      ok == {i \in 1..3 : xs[i] # NaN}
      n == Cardinality(ok)
      m == RDiv(RSum(xs, ok), Flt(n))
      sq == [i \in 1..3 |-> RMul(RSub(xs[i], m), RSub(xs[i], m))]
  IN IF n < 2 THEN NaN ELSE Sqrt(RDiv(RSum(sq, ok), Flt(n - 1)))

Mean3(x, y, z) ==
  LET xs == <<x, y, z>>
      ok == {i \in 1..3 : xs[i] # NaN}
  IN RDiv(RSum(xs, ok), Flt(Cardinality(ok)))

(* A symbolic root divided by a number: sqrt(q) / c = sqrt(q / c^2). *)
SqrtDiv(s, c) ==
  IF s = NaN \/ c = NaN THEN NaN
  ELSE IF s = Zero THEN RDiv(Zero, c)
  ELSE LET q == RDiv(<<s[2], s[3]>>, RMul(c, c)) IN <<"sqrt", q[1], q[2]>>

AsInt(b) == IF b THEN 1 ELSE 0

FillNa(v) == IF v = NaN THEN Zero ELSE v

(* Lines 117-169 on one row r of return_df: the acceleration, the crossover
   indicators and the ratios, then fillna(0). *)
Derived(r) ==
  LET Close_acc == RSub(r.Close_delta_pct, r.Close_delta_pct_2)
      MA_acc == [h \in HorizonSet |-> RSub(r.MA_delta_pct[h], r.MA_delta_pct_2[h])]
      delta_max == RDiv(RSub(r.max_Close, r.Close), r.max_Close)
      Std_Low_MA == SqrtDiv(Std3(r.MA[5], r.MA[10], r.MA[20]), r.Close)
      Std_High_MA == SqrtDiv(Std3(r.MA[60], r.MA[120], r.MA[240]), r.Close)
      Diff_Std == SymSub(Std_Low_MA, Std_High_MA)
      Diff_MA == RSub(RDiv(Mean3(r.MA[5], r.MA[10], r.MA[20]), r.Close),
                      RDiv(Mean3(r.MA[60], r.MA[120], r.MA[240]), r.Close))
      Diff_Volume == RDiv(r.Volume, r["20_average_volume"])
      Stochastic_Position ==
        RDiv(RSub(r.Close, r["20_min_Close"]), RSub(r["20_max_Close"], r["20_min_Close"]))
  IN [Stock_ID |-> r.Stock_ID,
      Close |-> FillNa(r.Close),
      Volume |-> FillNa(r.Volume),
      MA |-> [h \in HorizonSet |-> FillNa(r.MA[h])],
      Close_delta_pct |-> FillNa(r.Close_delta_pct),
      MA_delta_pct |-> [h \in HorizonSet |-> FillNa(r.MA_delta_pct[h])],
      Volume_delta |-> FillNa(r.Volume_delta),
      Close_acc |-> FillNa(Close_acc),
      MA_acc |-> [h \in HorizonSet |-> FillNa(MA_acc[h])],
      delta_max |-> FillNa(delta_max),
      Std_Low_MA |-> FillNa(Std_Low_MA),
      Std_High_MA |-> FillNa(Std_High_MA),
      Diff_Std |-> FillNa(Diff_Std),
      Diff_MA |-> FillNa(Diff_MA),
      Diff_Volume |-> FillNa(Diff_Volume),
      Stochastic_Position |-> FillNa(Stochastic_Position)]
     @@ ("MA_5 > MA_10" :> AsInt(RGt(r.MA[5], r.MA[10])))
     @@ ("MA_5 > MA_20" :> AsInt(RGt(r.MA[5], r.MA[20])))
     @@ ("MA_10 > MA_20" :> AsInt(RGt(r.MA[10], r.MA[20])))
     @@ ("Close > MA_120" :> AsInt(RGt(r.Close, r.MA[120])))
     @@ ("20_average_volume" :> FillNa(r["20_average_volume"]))
     @@ ("20_max_Close" :> FillNa(r["20_max_Close"]))
     @@ ("20_min_Close" :> FillNa(r["20_min_Close"]))

(* Lines 172-195: the bias ratio, and the columns of feature_col. *)
Features(r) ==
  [c \in DOMAIN r \ {"MA"} |-> r[c]]
    @@ [Bias_Ratio |-> RDiv(RSub(r.Close, r.MA[20]), r.MA[20])]

(* prediction_data_processing(df, pred_date) *)
prediction_data_processing(df0, pred_date) ==
  LET original_df ==
        MovingAverages(filter_for_date(df0, pred_date - WindowDays, pred_date - 1), 1)
      return_df1 == MergeRight(Unique(original_df), FirstDelta(original_df), <<>>, 1)
      return_df2 ==
        MergeRight(return_df1, SecondDelta(original_df),
                   [Close |-> NaN, Volume |-> NaN, MA |-> NaNs, Close_delta_pct |-> NaN,
                    MA_delta_pct |-> NaNs], 1)
      return_df3 ==
        MergeRight(return_df2, VolumeDelta(original_df),
                   [Close |-> NaN, Volume |-> NaN, MA |-> NaNs, Close_delta_pct |-> NaN,
                    MA_delta_pct |-> NaNs, Close_delta_pct_2 |-> NaN,
                    MA_delta_pct_2 |-> NaNs], 1)
      return_df4 == MergeLeft(return_df3, YearMaxClose(original_df), [max_Close |-> NaN], 1)
      return_df5 ==
        MergeLeft(return_df4, AverageVolume(original_df), ("20_average_volume" :> NaN), 1)
      return_df6 ==
        MergeLeft(return_df5, MaxMinClose(original_df),
                  ("20_max_Close" :> NaN) @@ ("20_min_Close" :> NaN), 1)
  IN [i \in 1..Len(return_df6) |-> Features(Derived(return_df6[i]))]

(***************************************************************************)
(* The frames read from the database: the rows of tw_stock_prices, unique   *)
(* by (Date, Stock_ID), with Close > 0 and Volume > 0.                      *)
(***************************************************************************)
PredDate == 400
MaxClose == 2
MaxVolume == 2
MaxInterval == 3
LongLen == 21

(* Two codes of the listing. *)
StockIds == <<1101, 2330>>
StockA == StockIds[1]
StockB == StockIds[2]

(* The first day of the window, three days at its end, and the days just
   outside it. *)
InDates == {PredDate - WindowDays, PredDate - 3, PredDate - 2, PredDate - 1}
OutDates == {PredDate - WindowDays - 1, PredDate}

Obs(id, date, c, v) == [Stock_ID |-> id, Date |-> date, Close |-> Flt(c), Volume |-> Flt(v)]

(* Any choice of days of stock A with any closes (the volume follows the
   close outside the window and is 1 inside), or with any volumes and a
   close of 1. *)
ObsOfA ==
  LET In(c, v) == UNION {{{Obs(StockA, d, f[d][1], f[d][2]) : d \in D} : f \in [D -> c \X v]}
                           : D \in SUBSET InDates}
      Out == {{Obs(StockA, d, MaxClose, MaxVolume) : d \in D} : D \in SUBSET OutDates}
  IN {i \cup o : <<i, o>> \in (In(1..MaxClose, {1}) \X Out)}
       \cup In({1}, 1..MaxVolume)

(* Stock B is absent, or has one day, or has the three last days. *)
ObsOfB ==
  {{},
   {Obs(StockB, PredDate - 1, 2, 2)},
   {Obs(StockB, PredDate - 3, 2, 2), Obs(StockB, PredDate - 2, 1, 1),
    Obs(StockB, PredDate - 1, 2, 2)}}

(* Stock A on the LongLen days before the prediction date: the oldest close
   is a, the latest is c and the others are b; the volume equals the close. *)
LongObs ==
  {{Obs(StockA, PredDate - n,
        IF n = LongLen THEN t[1] ELSE IF n = 1 THEN t[3] ELSE t[2],
        IF n = LongLen THEN t[1] ELSE IF n = 1 THEN t[3] ELSE t[2]) : n \in 1..LongLen}
     : t \in (1..MaxClose) \X (1..MaxClose) \X (1..MaxClose)}

(* Stock A closes at 100, 105 and 110 on the three days before the
   prediction date. *)
ScenarioObs ==
  {{Obs(StockA, PredDate - 3, 100, 1), Obs(StockA, PredDate - 2, 105, 1),
    Obs(StockA, PredDate - 1, 110, 1)}}

ObsSets == {a \cup b : <<a, b>> \in ObsOfA \X ObsOfB} \cup LongObs \cup ScenarioObs

(* The rows of S as a frame, latest day first: not the order the sorts of
   DataProcess.py ask for. *)
AsTable(S) ==
  LET Before(x, y) == x.Date > y.Date \/ (x.Date = y.Date /\ x.Stock_ID > y.Stock_ID)
      At(p) == CHOOSE x \in S : Cardinality({y \in S : Before(y, x)}) = p - 1
  IN [p \in 1..Cardinality(S) |->
        [idx |-> p, Stock_ID |-> At(p).Stock_ID, Date |-> At(p).Date,
         Close |-> At(p).Close, Volume |-> At(p).Volume, MA |-> <<>>]]

Tables == {AsTable(S) : S \in ObsSets}

(* The days a caller filters between. *)
FilterDates == {PredDate - WindowDays, PredDate - 2, PredDate}

InitFeatures ==
  /\ pc = "table"
  /\ table \in Tables
  /\ arg = <<>>
  /\ out = <<>>
  /\ raw = <<>>
  /\ now = Now
  /\ clean = None
  /\ audit = None
  /\ clean2 = None
  /\ audit2 = None

(* A call of prediction_data_processing(df, pred_date). *)
Predict ==
  /\ pc = "table"
  /\ arg' = [pred_date |-> PredDate]
  /\ out' = prediction_data_processing(table, PredDate)
  /\ pc' = "predicted"
  /\ UNCHANGED <<table, raw, now, clean, audit, clean2, audit2>>

(* A call of average_price(interval, data). *)
AveragePrice ==
  /\ pc = "table"
  /\ \E interval \in 1..MaxInterval :
       /\ arg' = [interval |-> interval]
       /\ out' = average_price(interval, table)
  /\ pc' = "averaged"
  /\ UNCHANGED <<table, raw, now, clean, audit, clean2, audit2>>

(* A call of filter_for_date(df, start_date, end_date). *)
FilterForDate ==
  /\ pc = "table"
  /\ \E start_date \in FilterDates, end_date \in FilterDates :
       /\ arg' = [start_date |-> start_date, end_date |-> end_date]
       /\ out' = filter_for_date(table, start_date, end_date)
  /\ pc' = "filtered"
  /\ UNCHANGED <<table, raw, now, clean, audit, clean2, audit2>>

NextFeatures == Predict \/ AveragePrice \/ FilterForDate

SpecFeatures == InitFeatures /\ [][NextFeatures]_vars

(***************************************************************************)
(* Claims about the validator.                                             *)
(***************************************************************************)
Data(r) == [date |-> r.date, open |-> r.open, high |-> r.high, low |-> r.low, close |-> r.close]

Present(r) == ~IsNa(r.open) /\ ~IsNa(r.high) /\ ~IsNa(r.low) /\ ~IsNa(r.close)

(* The PricePoint invariant of one row, at clock reading t. *)
PricePointOk(r, t) ==
  /\ Present(r)
  /\ \A p \in {r.open, r.high, r.low, r.close} :
        Val(p) > 0 /\ Val(r.high) >= Val(p) /\ Val(r.low) <= Val(p)
  /\ r.date <= t

(* C1: every row of a clean series the validator returns has open, high, low
   and close all > 0, high >= each of open, close, low, low <= each of open,
   close, high, and a date not later than the validator's now. *)
C1_CleanRowsValid ==
  /\ pc \in {"validated", "revalidated"} =>
        \A i \in 1..Len(clean.rows) : PricePointOk(clean.rows[i], Now)
  /\ pc = "revalidated" =>
        \A i \in 1..Len(clean2.rows) : PricePointOk(clean2.rows[i], now)

(* C1 witness: a run that kept two rows and rejected a complete, past row. *)
C1_Witness ==
  /\ pc = "validated"
  /\ Len(clean.rows) >= 2
  /\ \E i \in 1..Len(audit.rows) : audit.rows[i].reason = ReasonLogic

(* The reason the rule order gives a past row at position k of the raw frame,
   or "clean": stated from the raw rows, without the validator's masks. *)
RECURSIVE PrevSurvivor(_, _)
Survives(r) ==
  /\ r.date <= Now
  /\ Present(r)
  /\ \A p \in {r.open, r.high, r.low, r.close} :
        Val(p) > 0 /\ Val(r.high) >= Val(p) /\ Val(r.low) <= Val(p)

(* The position of the nearest row before k that passed the first three
   rules, 0 if there is none. *)
PrevSurvivor(df, k) ==
  IF k <= 1 THEN 0
  ELSE IF Survives(df[k-1]) THEN k - 1 ELSE PrevSurvivor(df, k - 1)

Verdict(df, k) ==
  IF ~Present(df[k]) THEN ReasonNa
  ELSE IF ~Survives(df[k]) THEN ReasonLogic
  ELSE LET j == PrevSurvivor(df, k)
       IN IF j > 0 /\ 2 * Abs(Val(df[k].close) - Val(df[j].close)) > Val(df[j].close)
          THEN ReasonExtreme ELSE "clean"

PastPositions(df) == {k \in 1..Len(df) : df[k].date <= Now}

(* C10: the validator partitions its input: every row dated not later than
   now is in exactly one of the clean series and the audit entries, with the
   one reason the rule order fixes (missing before logic error before extreme
   volatility), and a future-dated row is in neither. *)
C10_Partition ==
  pc = "validated" =>
    /\ Idx(clean.rows) \cap {audit.rows[i].row.idx : i \in 1..Len(audit.rows)} = {}
    /\ Idx(clean.rows) \cup {audit.rows[i].row.idx : i \in 1..Len(audit.rows)}
          = PastPositions(raw)
    /\ Len(clean.rows) + Len(audit.rows) = Cardinality(PastPositions(raw))
    /\ \A i \in 1..Len(clean.rows) :
          /\ Data(clean.rows[i]) = raw[clean.rows[i].idx]
          /\ Verdict(raw, clean.rows[i].idx) = "clean"
    /\ \A i \in 1..Len(audit.rows) :
          /\ Data(audit.rows[i].row) = raw[audit.rows[i].row.idx]
          /\ Verdict(raw, audit.rows[i].row.idx) = audit.rows[i].reason

(* C10 witness: a frame with a future row, a row with a non-positive close
   audited as a logic error, and a row kept. *)
C10_Witness ==
  /\ pc = "validated"
  /\ \E k \in 1..Len(raw) : raw[k].date > Now
  /\ \E i \in 1..Len(audit.rows) :
        /\ audit.rows[i].reason = ReasonLogic
        /\ Val(audit.rows[i].row.close) <= 0
  /\ Len(clean.rows) >= 1

(* The rows that passed the future-date, completeness and logic rules. *)
RECURSIVE SurvivorPositions(_, _)
SurvivorPositions(df, k) ==
  IF k > Len(df) THEN <<>>
  ELSE (IF Survives(df[k]) THEN <<k>> ELSE <<>>) \o SurvivorPositions(df, k + 1)

IsAudited(k, reason) ==
  \E i \in 1..Len(audit.rows) : audit.rows[i].row.idx = k /\ audit.rows[i].reason = reason

(* C9: the extreme-volatility rule is evaluated once over the survivors of
   the earlier rules: a survivor is quarantined as extreme iff its close
   differs from the close of the survivor just before it by more than half of
   that close, whether or not that one is itself quarantined; the first
   survivor and a change of exactly one half are never quarantined, and every
   other survivor is in the clean series. *)
C9_SinglePassVolatility ==
  pc = "validated" =>
    LET sv == SurvivorPositions(raw, 1)
    IN \A n \in 1..Len(sv) :
         LET ext == /\ n > 1
                    /\ 2 * Abs(Val(raw[sv[n]].close) - Val(raw[sv[n-1]].close))
                          > Val(raw[sv[n-1]].close)
         IN /\ IsAudited(sv[n], ReasonExtreme) <=> ext
            /\ sv[n] \in Idx(clean.rows) <=> ~ext

(* C9 witness: a survivor is quarantined as extreme, and the survivor after
   it is kept because it is measured against the quarantined one, although it
   is more than one half away from the survivor before that. *)
C9_Witness ==
  /\ pc = "validated"
  /\ \E k \in 3..Len(raw) :
        /\ Survives(raw[k]) /\ Survives(raw[k-1]) /\ Survives(raw[k-2])
        /\ IsAudited(k - 1, ReasonExtreme)
        /\ k \in Idx(clean.rows)
        /\ 2 * Abs(Val(raw[k].close) - Val(raw[k-2].close)) > Val(raw[k-2].close)

SameData(f, g) ==
  /\ Len(f) = Len(g)
  /\ \A i \in 1..Len(f) : Data(f[i]) = Data(g[i])

(* C2 as stated: the second run, on the clean series of the first, produces no
   audit entry and returns the same clean series. *)
C2_Idempotent ==
  pc = "revalidated" =>
    /\ audit2.rows = <<>>
    /\ SameData(clean2.rows, clean.rows)

FirstRunExtremeBetween(a, b) ==
  \E i \in 1..Len(audit.rows) :
    /\ audit.rows[i].reason = ReasonExtreme
    /\ a < audit.rows[i].row.idx
    /\ audit.rows[i].row.idx < b

(* C2 amended: the second run quarantines nothing as missing or logic error
   and drops nothing as future: its audit entries are all extreme-volatility
   entries, each for a row that stands, in the clean series, right after a row
   from which the first run had separated it by a row it quarantined as
   extreme; the second clean series is the first without those rows, and when
   the first run quarantined nothing as extreme the second run produces no
   audit entry and returns the same series. *)
C2_SecondRunOnlyVolatility ==
  pc = "revalidated" =>
    /\ \A i \in 1..Len(audit2.rows) :
          LET k == audit2.rows[i].row.idx
          IN /\ audit2.rows[i].reason = ReasonExtreme
             /\ k > 1
             /\ FirstRunExtremeBetween(clean.rows[k-1].idx, clean.rows[k].idx)
    /\ Len(clean2.rows) + Len(audit2.rows) = Len(clean.rows)
    /\ \A i \in 1..Len(clean2.rows) :
          Data(clean2.rows[i]) = Data(clean.rows[clean2.rows[i].idx])
    /\ \A i \in 1..Len(audit2.rows) :
          /\ Data(audit2.rows[i].row) = Data(clean.rows[audit2.rows[i].row.idx])
          /\ audit2.rows[i].row.idx \notin Idx(clean2.rows)
    /\ (\A i \in 1..Len(audit.rows) : audit.rows[i].reason # ReasonExtreme) =>
          audit2.rows = <<>> /\ SameData(clean2.rows, clean.rows)

(* C2 witness: a second run that quarantined a row, and kept one. *)
C2_Witness ==
  /\ pc = "revalidated"
  /\ Len(audit2.rows) >= 1
  /\ Len(clean2.rows) >= 1
  /\ Len(audit.rows) >= 1

(***************************************************************************)
(* Claims about the feature derivation, stated from the rows of table.     *)
(***************************************************************************)
InWindow(r) == PredDate - WindowDays <= r.Date /\ r.Date <= PredDate - 1

(* The positions in table of the in-window rows of an instrument. *)
WinRows(id) == {i \in 1..Len(table) : table[i].Stock_ID = id /\ InWindow(table[i])}

(* 1 for the most recent in-window row of its instrument, 2 for the one before. *)
Recency(i) ==
  Cardinality({j \in WinRows(table[i].Stock_ID) : table[j].Date > table[i].Date}) + 1

Ranked(id, k) == CHOOSE i \in WinRows(id) : Recency(i) = k

OutRows(id) == {n \in 1..Len(out) : out[n].Stock_ID = id}

Stocks == {StockA, StockB}

(* The mean of the closes of the in-window rows ranked k .. k+h-1. *)
MeanCloseFrom(id, k, h) ==
  LET w == {i \in WinRows(id) : k <= Recency(i) /\ Recency(i) < k + h}
  IN RDiv(RSum([i \in 1..Len(table) |-> table[i].Close], w), Flt(Cardinality(w)))

Change(x, y) == RDiv(RSub(x, y), y)

(* C3 as stated: one feature row for each instrument with at least 2
   observations in the window and none for the others; an instrument with
   exactly 2 gets a row whose acceleration features are undefined. *)
C3_OneRowPerInstrument ==
  pc = "predicted" =>
    \A id \in Stocks :
      /\ Cardinality(OutRows(id)) = IF Cardinality(WinRows(id)) >= 2 THEN 1 ELSE 0
      /\ Cardinality(WinRows(id)) = 2 =>
            \A n \in OutRows(id) :
              /\ out[n].Close_acc = NaN
              /\ \A h \in HorizonSet : out[n].MA_acc[h] = NaN

(* C4 as stated, for the instruments with at least 3 observations in the
   window: 20_average_volume is the mean of the volumes of the observations
   ranked 2 to 6 (fewer with less history), and Diff_Volume is the latest
   volume divided by it. *)
C4_AverageVolume ==
  pc = "predicted" =>
    \A id \in Stocks : Cardinality(WinRows(id)) >= 3 =>
      \A n \in OutRows(id) :
        LET w == {i \in WinRows(id) : 2 <= Recency(i) /\ Recency(i) <= 6}
            mean == RDiv(RSum([i \in 1..Len(table) |-> table[i].Volume], w),
                         Flt(Cardinality(w)))
        IN /\ out[n]["20_average_volume"] = mean
           /\ out[n].Diff_Volume = RDiv(table[Ranked(id, 1)].Volume, mean)

(* C5: for an instrument with at least 3 observations in the window, with
   closes c1 (latest), c2, c3, Close_delta_pct = (c1 - c2)/c2 and
   Close_acc = (c1 - c2)/c2 - (c2 - c3)/c3, and for each moving average X,
   X_acc = X_delta_pct - X_delta_pct_2, all from the instrument's own rows. *)
C5_Acceleration ==
  pc = "predicted" =>
    \A id \in Stocks : Cardinality(WinRows(id)) >= 3 =>
      /\ OutRows(id) # {}
      /\ \A n \in OutRows(id) :
           LET c1 == table[Ranked(id, 1)].Close[1]
               c2 == table[Ranked(id, 2)].Close[1]
               c3 == table[Ranked(id, 3)].Close[1]
               d == out[n].Close_delta_pct
               a == out[n].Close_acc
           IN /\ d # NaN /\ d[1] * c2 = d[2] * (c1 - c2)
              /\ a # NaN
              /\ a[1] * (c2 * c3) = a[2] * ((c1 - c2) * c3 - (c2 - c3) * c2)
              /\ \A h \in HorizonSet :
                   LET m1 == MeanCloseFrom(id, 1, h)
                       m2 == MeanCloseFrom(id, 2, h)
                       m3 == MeanCloseFrom(id, 3, h)
                   IN /\ out[n].MA_delta_pct[h] = Change(m1, m2)
                      /\ out[n].MA_acc[h] = RSub(Change(m1, m2), Change(m2, m3))

(* C5 witness: closes 100, 105, 110 give Close_delta_pct = 5/105 = 1/21 and
   Close_acc = 5/105 - 5/100 = -1/420. *)
C5_Witness ==
  /\ pc = "predicted"
  /\ Cardinality(WinRows(StockA)) = 3
  /\ table[Ranked(StockA, 1)].Close = Flt(110)
  /\ table[Ranked(StockA, 2)].Close = Flt(105)
  /\ table[Ranked(StockA, 3)].Close = Flt(100)
  /\ \E n \in OutRows(StockA) :
        out[n].Close_delta_pct = <<1, 21>> /\ out[n].Close_acc = <<-1, 420>>

(* C6 as stated: in every output row Stochastic_Position is
   (Close_latest - min)/(max - min) over the up-to-20 most recent in-window
   closes of the instrument, 0 when max = min, and so lies in [0, 1]. *)
C6_StochasticPosition ==
  pc = "predicted" =>
    \A n \in 1..Len(out) :
      LET id == out[n].Stock_ID
          cs == {table[i].Close : i \in {j \in WinRows(id) : Recency(j) <= 20}}
          mx == RMax(cs)
          mn == RMin(cs)
          sp == out[n].Stochastic_Position
      IN /\ sp # NaN /\ ~RGt(Zero, sp) /\ ~RGt(sp, Flt(1))
         /\ sp = IF mx = mn THEN Zero
                 ELSE RDiv(RSub(table[Ranked(id, 1)].Close, mn), RSub(mx, mn))

RECURSIVE SumClose(_)
SumClose(w) ==
  IF w = {} THEN 0
  ELSE LET i == CHOOSE j \in w : TRUE IN table[i].Close[1] + SumClose(w \ {i})

(* C7: average_price(h, data) gives each row the mean of the closes of its
   own instrument over the row and the up to h-1 rows dated before it: the
   window is clamped to the history there is, so the mean is always defined,
   a single observation gets its own close, h = 1 gives Close itself, and no
   close of another instrument is counted. *)
C7_ClampedRollingMean ==
  pc = "averaged" =>
    /\ Len(out) = Len(table)
    /\ {out[n].idx : n \in 1..Len(out)} = 1..Len(table)
    /\ \A n \in 1..Len(out) :
         LET r == out[n]
             s == {i \in 1..Len(table) :
                     table[i].Stock_ID = r.Stock_ID /\ table[i].Date <= r.Date}
             w == {i \in s :
                     Cardinality({j \in s : table[j].Date > table[i].Date}) < arg.interval}
             ma == r.MA[arg.interval]
         IN /\ r.Close = table[r.idx].Close /\ r.Date = table[r.idx].Date
            /\ r.Stock_ID = table[r.idx].Stock_ID
            /\ ma # NaN /\ ma[2] > 0
            /\ ma[1] * Cardinality(w) = ma[2] * SumClose(w)
            /\ arg.interval = 1 => ma = r.Close
            /\ Cardinality(s) = 1 => ma = r.Close

(* C7 witness: a horizon of 2 over a frame in which one instrument has more
   rows than the horizon and the other has a single row. *)
C7_Witness ==
  /\ pc = "averaged"
  /\ arg.interval = 2
  /\ Cardinality({i \in 1..Len(table) : table[i].Stock_ID = StockA}) >= 3
  /\ Cardinality({i \in 1..Len(table) : table[i].Stock_ID = StockB}) = 1
  /\ \E n \in 1..Len(out) : out[n].MA[2] # out[n].Close

(* C8: filter_for_date returns exactly the rows with start_date <= Date <=
   end_date, in their order; so the features for pred_date are those of the
   observations dated pred_date - 365 .. pred_date - 1 alone, and an
   observation dated on pred_date or later (or before the window) changes no
   output row. *)
C8_WindowOnly ==
  /\ pc = "filtered" =>
       out = SelectSeq(table, LAMBDA r : arg.start_date <= r.Date /\ r.Date <= arg.end_date)
  /\ pc = "predicted" =>
       out = prediction_data_processing(SelectSeq(table, InWindow), PredDate)

(* C8 witness: a prediction over a frame with rows on both ends of the window
   and on the days just outside it. *)
C8_Witness ==
  /\ pc = "predicted"
  /\ \A d \in {PredDate - WindowDays - 1, PredDate - WindowDays, PredDate - 1, PredDate} :
        \E i \in 1..Len(table) : table[i].Date = d
  /\ Cardinality(WinRows(StockA)) >= 3
  /\ OutRows(StockA) # {}

====
